---- MODULE Spec2Model ----
(***************************************************************************)
(* State-machine model of the diet tracker's App component (src/App.tsx)   *)
(* and of its reasoning service (src/services/geminiService.ts).           *)
(*                                                                         *)
(* The React component is modelled as its useState cells plus the values   *)
(* derived at render (totals).  Every event handler is one action: it      *)
(* applies its setState calls and re-renders.  The two useEffect hooks run *)
(* in the action Effects, which is the flush of passive effects after a    *)
(* render whose dependencies changed; no handler runs while a flush is due.*)
(* Promises (FileReader, the two remote calls) settle in actions of their  *)
(* own.  An exception thrown in an effect or while rendering unmounts the  *)
(* tree (there is no error boundary): crashed is then "load" or "render",  *)
(* and only a reload of the page mounts the component again.               *)
(***************************************************************************)
EXTENDS Integers, Sequences, FiniteSets, TLC

(***************************************************************************)
(* Bounds of the model.                                                    *)
(***************************************************************************)
MaxDay == 2
MaxMeals == 3
MaxId == 3
MaxPending == 2
MaxCaptures == 2
MaxChats == 1
MaxTextLen == 2
MaxChunks == 5

(***************************************************************************)
(* JavaScript values.  Numbers of the program are naturals here; the       *)
(* negative integers below stand for the non-numbers a field can hold.     *)
(***************************************************************************)
NaN == 0 - 1
Undef == 0 - 2
Null == 0 - 3

NoUser == "<null>"
EmptyUser == ""
Users == {"a", "b"}
LoginInputs == Users \cup {EmptyUser}
Days == 1 .. MaxDay
NoDate == 0

\* a string is truthy unless it is null or empty
Truthy(u) == u # NoUser /\ u # EmptyUser

\* x + y of JavaScript on numbers, undefined, null and NaN
JsAdd(x, y) ==
  LET v(z) == IF z = Null THEN 0 ELSE z
  IN IF x = NaN \/ y = NaN \/ x = Undef \/ y = Undef THEN NaN ELSE v(x) + v(y)

\* a number as JSON.stringify writes it and JSON.parse reads it back
JsonNumber(x) == IF x = NaN THEN Null ELSE x

(***************************************************************************)
(* Types (src/types.ts).                                                   *)
(***************************************************************************)
MAINTENANCE == "Maintenance"
WEIGHT_LOSS == "Weight Loss"
DietGoal == {MAINTENANCE, WEIGHT_LOSS}

\* obj = FALSE is an absent nutrition object; a field Undef is an absent field
NoNutrition == [obj |-> FALSE, calories |-> Undef, protein |-> Undef, carbs |-> Undef, fat |-> Undef]
Nutrition(c, p, cb, f) == [obj |-> TRUE, calories |-> c, protein |-> p, carbs |-> cb, fat |-> f]

CompleteNutrition(n) ==
  n.obj /\ n.calories >= 0 /\ n.protein >= 0 /\ n.carbs >= 0 /\ n.fat >= 0

NoImage == "<null>"
Images == {"img1", "img2"}
NoName == "<undefined>"

\* useState<UserProfile | null>(null)
NullProfile ==
  [isNull |-> TRUE, username |-> NoUser, goal |-> MAINTENANCE, age |-> 0,
   dailyCalorieTarget |-> 0, dailyProteinTarget |-> 0, lastActiveDate |-> NoDate]

\* DefaultProfileMutant: the default profile is built without lastActiveDate
DefaultProfileNoDate(user, day) ==
  [isNull |-> FALSE, username |-> user, goal |-> MAINTENANCE, age |-> 30,
   dailyCalorieTarget |-> 2400, dailyProteinTarget |-> 150, lastActiveDate |-> NoDate]

\* the default profile of the load effect
DefaultProfile(user, day) ==
  [isNull |-> FALSE, username |-> user, goal |-> MAINTENANCE, age |-> 30,
   dailyCalorieTarget |-> 2400, dailyProteinTarget |-> 150, lastActiveDate |-> day]

\* useState<FoodAnalysis | null>(null)
NullAnalysis == [isNull |-> TRUE, foodName |-> NoName, nutrition |-> NoNutrition]

ZeroTotals == [cal |-> 0, prot |-> 0, carbs |-> 0, fat |-> 0]

\* NutritionTotalsMutant: the fold starts from the second meal
TotalsSkipFirst(ms) ==
  LET RECURSIVE Fold(_, _)
      Fold(acc, i) ==
        IF i > Len(ms) THEN acc
        ELSE Fold([cal |-> JsAdd(acc.cal, ms[i].nutrition.calories),
                   prot |-> JsAdd(acc.prot, ms[i].nutrition.protein),
                   carbs |-> JsAdd(acc.carbs, ms[i].nutrition.carbs),
                   fat |-> JsAdd(acc.fat, ms[i].nutrition.fat)], i + 1)
  IN Fold(ZeroTotals, 2)

\* meals.reduce((acc, m) => ({cal: acc.cal + m.nutrition.calories, ...}), {0,0,0,0})
Totals(ms) ==
  LET RECURSIVE Fold(_, _)
      Fold(acc, i) ==
        IF i > Len(ms) THEN acc
        ELSE Fold([cal |-> JsAdd(acc.cal, ms[i].nutrition.calories),
                   prot |-> JsAdd(acc.prot, ms[i].nutrition.protein),
                   carbs |-> JsAdd(acc.carbs, ms[i].nutrition.carbs),
                   fat |-> JsAdd(acc.fat, ms[i].nutrition.fat)], i + 1)
  IN Fold(ZeroTotals, 1)

\* x || fallback on a number: 0, NaN, null and undefined are falsy
NumberOr(x, fallback) == IF x > 0 THEN x ELSE fallback

\* CalTargetMutant: the fallback is used whatever the profile holds
CalTargetFallback(p) == 2000

\* const calTarget = profile?.dailyCalorieTarget || 2000
CalTarget(p) == IF p.isNull THEN 2000 ELSE NumberOr(p.dailyCalorieTarget, 2000)

\* const protTarget = profile?.dailyProteinTarget || 150
ProtTarget(p) == IF p.isNull THEN 150 ELSE NumberOr(p.dailyProteinTarget, 150)

\* the number x / t, kept as a fraction; NaN when x is not a number
Ratio(x, t) == [nan |-> x < 0, num |-> IF x < 0 THEN 0 ELSE x, den |-> t]

\* Math.round(r * 100), NaN (as the integer that stands for it) for NaN
RoundPercent(r) == IF r.nan THEN NaN ELSE (200 * r.num + r.den) \div (2 * r.den)

\* Efficiency: Math.round((totals.cal / calTarget) * 100)
Efficiency(t, p) == RoundPercent(Ratio(t.cal, CalTarget(p)))

\* the width of the protein bar: Math.min(100, (totals.prot / protTarget) * 100),
\* a percentage kept as a fraction
ProteinWidth(t, p) ==
  LET r == Ratio(t.prot, ProtTarget(p))
  IN IF r.nan THEN r
     ELSE IF r.num >= r.den THEN [nan |-> FALSE, num |-> 100, den |-> 1]
     ELSE [nan |-> FALSE, num |-> 100 * r.num, den |-> r.den]

(***************************************************************************)
(* localStorage.  An entry is absent (getItem gives null), text that is    *)
(* not JSON, or the JSON text of a value.                                  *)
(***************************************************************************)
AbsentProfile == [kind |-> "absent", val |-> NullProfile]
MalformedProfile == [kind |-> "malformed", val |-> NullProfile]
AbsentMeals == [kind |-> "absent", val |-> << >>]
MalformedMeals == [kind |-> "malformed", val |-> << >>]

\* JSON.stringify(profile): NaN is written as null, an undefined field is dropped
StringifyProfile(p) ==
  [kind |-> "json", val |-> [p EXCEPT !.age = JsonNumber(p.age)]]

\* StringifyMealsMutant: the timestamps are lost in the stored text
StringifyMealsRestamped(ms) ==
  [kind |-> "json", val |-> [i \in 1 .. Len(ms) |-> [ms[i] EXCEPT !.timestamp = 0]]]

\* JSON.stringify(meals)
StringifyMeals(ms) == [kind |-> "json", val |-> ms]

\* JSON.parse throws a SyntaxError on text that is not JSON
ParseThrows(entry) == entry.kind = "malformed"

\* saved ? JSON.parse(saved) : <default>
ParseOr(entry, default) == IF entry.kind = "json" THEN entry.val ELSE default

VARIABLES
  today,            \* the calendar day new Date().toDateString() renders
  activeUser,       \* localStorage entry diet_active_user
  store,            \* localStorage entries diet_pro_<user>_profile and _meals
  currentUser, profile, meals,
  totals,           \* the totals computed by the last render
  agentFeedback, isAgentThinking,
  analyzedFood, loading, imagePreview, isCapturing,
  capture,          \* the capture flow: FileReader and analysis request in flight
  pending,          \* advice requests in flight
  chats,            \* chat requests in flight
  nextId,           \* ids crypto.randomUUID() has handed out
  effects,          \* dependencies changed since the last flush of effects
  crashed,          \* the tree was unmounted by an uncaught exception
  lastOp            \* the last operation and its inputs

vars == <<today, activeUser, store, currentUser, profile, meals, totals,
          agentFeedback, isAgentThinking, analyzedFood, loading, imagePreview,
          isCapturing, capture, pending, chats, nextId, effects, crashed, lastOp>>

(***************************************************************************)
(* getAgentDecision (src/services/geminiService.ts).  A reply text is a    *)
(* sequence of tokens: the three labels, blanks and newlines, words        *)
(* (maximal runs of \w characters) and free text that starts with a        *)
(* character outside \w.                                                   *)
(***************************************************************************)
NL == "\n"
SP == " "
WordTokens == {"OPTIMAL", "WARNING", "CRITICAL", "GOOD"}
IsSpace(t) == t = SP \/ t = NL

DefaultStatus == "OPTIMAL"
DefaultReasoning == <<"Analyzing biological trends...">>
DefaultSuggestion == <<"Proceed with current protocol.">>
NoMatch == << >>

\* the positions of text where the token label stands
Occurrences(text, label) == {i \in 1 .. Len(text) : text[i] = label}

Min(S) == CHOOSE x \in S : \A y \in S : x <= y
Max(S) == CHOOSE x \in S : \A y \in S : x >= y

\* textOutput.match(/STATUS:\s*(\w+)/)?.[1]: the word after the first
\* STATUS: that is followed, blanks aside, by a word
MatchWord(text, label) ==
  LET After(i) ==
        LET rest == {k \in i + 1 .. Len(text) : ~IsSpace(text[k])}
        IN IF rest = {} THEN 0 ELSE Min(rest)
      hits == {i \in Occurrences(text, label) :
                 After(i) # 0 /\ text[After(i)] \in WordTokens}
  IN IF hits = {} THEN NoMatch ELSE <<text[After(Min(hits))]>>

\* textOutput.match(/REASONING:\s*([^\n]+)/)?.[1]: \s* is greedy and gives
\* back what it took until [^\n]+ finds a character that is not a newline
MatchLine(text, label) ==
  LET Starts(i) == {k \in i + 1 .. Len(text) :
                      /\ \A m \in i + 1 .. k - 1 : IsSpace(text[m])
                      /\ text[k] # NL}
      hits == {i \in Occurrences(text, label) : Starts(i) # {}}
  IN IF hits = {} THEN NoMatch
     ELSE LET k == Max(Starts(Min(hits)))
              ends == {e \in k .. Len(text) : \A m \in k .. e : text[m] # NL}
          IN SubSeq(text, k, Max(ends))

\* SuggestedRecipesMutant: the slice is left out
SuggestedRecipesUnsliced(chunks) ==
  LET web == SelectSeq(chunks, LAMBDA c : c.web)
  IN [i \in 1 .. Len(web) |-> [title |-> web[i].title, uri |-> web[i].uri]]

\* groundingChunks.filter(chunk => chunk.web).map(...).slice(0, 3)
SuggestedRecipes(chunks) ==
  LET web == SelectSeq(chunks, LAMBDA c : c.web)
      refs == [i \in 1 .. Len(web) |-> [title |-> web[i].title, uri |-> web[i].uri]]
  IN SubSeq(refs, 1, IF Len(refs) < 3 THEN Len(refs) ELSE 3)

\* `${x}` in a template string, for a total, a target or a field of a
\* record: the decimal digits of the number, or the word NaN, undefined or
\* null
Show(x) ==
  [kind |-> IF x = NaN THEN "NaN" ELSE IF x = Undef THEN "undefined"
            ELSE IF x = Null THEN "null" ELSE "number",
   value |-> IF x >= 0 THEN x ELSE 0]

\* history.reduce((sum, m) => sum + m.nutrition[f], 0)
PromptSum(history, f) ==
  LET RECURSIVE Reduce(_, _)
      Reduce(sum, i) ==
        IF i > Len(history) THEN sum
        ELSE Reduce(JsAdd(sum, history[i].nutrition[f]), i + 1)
  IN Reduce(0, 1)

\* RemainingMutant: the operands of the subtraction are swapped
RemainingFlipped(target, total) ==
  IF target < 0 \/ total = NaN \/ total = Undef THEN [kind |-> "NaN", value |-> 0]
  ELSE [kind |-> "number", value |-> total - target]

\* `${profile.dailyCalorieTarget - totalCalories}`: the difference as the
\* template string shows it, NaN when the total is not a number
Remaining(target, total) ==
  IF target < 0 \/ total = NaN \/ total = Undef THEN [kind |-> "NaN", value |-> 0]
  ELSE [kind |-> "number", value |-> target - total]

\* systemInstruction and userPrompt of getAgentDecision, as the values they
\* embed; an empty history gives the line No data.
BuildPrompt(p, history) ==
  LET totalCalories == PromptSum(history, "calories")
      totalProtein == PromptSum(history, "protein")
      totalFat == PromptSum(history, "fat")
  IN [goal |-> p.goal,
      totalCalories |-> Show(totalCalories),
      totalProtein |-> Show(totalProtein),
      totalFat |-> Show(totalFat),
      targetCalories |-> Show(p.dailyCalorieTarget),
      targetProtein |-> Show(p.dailyProteinTarget),
      noData |-> history = << >>,
      mealList |-> [i \in 1 .. Len(history) |->
                     [foodName |-> history[i].foodName,
                      calories |-> Show(history[i].nutrition.calories),
                      protein |-> Show(history[i].nutrition.protein),
                      fat |-> Show(history[i].nutrition.fat)]],
      remaining |-> Remaining(p.dailyCalorieTarget, totalCalories)]

\* useState<AgentDecision | null>(null)
NullDecision ==
  [isNull |-> TRUE, status |-> "", reasoning |-> << >>, suggestion |-> << >>,
   suggestedRecipes |-> << >>]

\* response.text || ""
ResponseText(reply) == IF reply.hasText THEN reply.text ELSE << >>

\* ParseDecisionMutant: a reply without STATUS: is classified WARNING
ParseDecisionWarn(reply) ==
  LET textOutput == ResponseText(reply)
      statusMatch == MatchWord(textOutput, "STATUS:")
      reasoningMatch == MatchLine(textOutput, "REASONING:")
      actionMatch == MatchLine(textOutput, "ACTION:")
  IN [isNull |-> FALSE,
      status |-> IF statusMatch # NoMatch THEN statusMatch[1] ELSE "WARNING",
      reasoning |-> IF reasoningMatch # NoMatch THEN reasoningMatch ELSE DefaultReasoning,
      suggestion |-> IF actionMatch # NoMatch THEN actionMatch ELSE DefaultSuggestion,
      suggestedRecipes |-> SuggestedRecipes(reply.chunks)]

\* the part of getAgentDecision after the await: the reply to a decision
ParseDecision(reply) ==
  LET textOutput == ResponseText(reply)
      statusMatch == MatchWord(textOutput, "STATUS:")
      reasoningMatch == MatchLine(textOutput, "REASONING:")
      actionMatch == MatchLine(textOutput, "ACTION:")
  IN [isNull |-> FALSE,
      status |-> IF statusMatch # NoMatch THEN statusMatch[1] ELSE DefaultStatus,
      reasoning |-> IF reasoningMatch # NoMatch THEN reasoningMatch ELSE DefaultReasoning,
      suggestion |-> IF actionMatch # NoMatch THEN actionMatch ELSE DefaultSuggestion,
      suggestedRecipes |-> SuggestedRecipes(reply.chunks)]

(***************************************************************************)
(* Replies of the external collaborator that the model feeds in.           *)
(***************************************************************************)
WebChunk(n) == [web |-> TRUE, title |-> n, uri |-> n]
OtherChunk == [web |-> FALSE, title |-> "", uri |-> ""]
ManyChunks == <<WebChunk("r1"), OtherChunk, WebChunk("r2"), WebChunk("r3"), WebChunk("r4")>>

LabelledReplies ==
  { [hasText |-> FALSE, text |-> << >>, chunks |-> << >>],
    [hasText |-> TRUE, text |-> <<"(no labels here)", NL, "GOOD">>, chunks |-> ManyChunks],
    [hasText |-> TRUE,
     text |-> <<"STATUS:", SP, "WARNING", NL, "REASONING:", SP, "(fat is high)", NL,
                "ACTION:", SP, "(eat fish)", SP, "GOOD">>,
     chunks |-> <<WebChunk("r1")>>],
    [hasText |-> TRUE, text |-> <<"STATUS:", SP, "GOOD", NL, "REASONING:", NL, "ACTION:", SP>>,
     chunks |-> << >>] }

\* a reply that is structured JSON: no \w run of its text is followed by a
\* colon, so each piece of it is free text for the three patterns
JsonDecision ==
  [status |-> "WARNING", reasoning |-> <<"(fat is high)">>, suggestion |-> <<"(eat fish)">>]

JsonText ==
  <<"{\"status\":", SP, "\"WARNING\",", SP, "\"reasoning\":", SP, "\"(fat is high)\",", SP,
    "\"suggestion\":", SP, "\"(eat fish)\"}">>

JsonReply == [hasText |-> TRUE, text |-> JsonText, chunks |-> << >>]

\* every text of at most MaxTextLen tokens over a small alphabet
ShortTokens == {"STATUS:", "REASONING:", SP, NL, "WARNING"}
ShortTexts == UNION {[1 .. n -> ShortTokens] : n \in 0 .. MaxTextLen}

AdviceReplies ==
  LabelledReplies \cup {JsonReply}
    \cup {[hasText |-> TRUE, text |-> t, chunks |-> << >>] : t \in ShortTexts}

\* the text of a reply shows none of the three labelled fields
NoLabels(reply) ==
  \A i \in 1 .. Len(ResponseText(reply)) :
     ResponseText(reply)[i] \notin {"STATUS:", "REASONING:", "ACTION:"}

\* an image-analysis reply: response.text, as its kind and what it parses to
FoodOk1 == [isNull |-> FALSE, foodName |-> "Salmon", nutrition |-> Nutrition(500, 30, 0, 20)]
FoodOk2 == [isNull |-> FALSE, foodName |-> "Rice", nutrition |-> Nutrition(700, 45, 90, 5)]
FoodEmptyObject == [isNull |-> FALSE, foodName |-> NoName, nutrition |-> NoNutrition]
FoodNoNutrition == [isNull |-> FALSE, foodName |-> "Soup", nutrition |-> NoNutrition]
FoodPartial ==
  [isNull |-> FALSE, foodName |-> "Tea",
   nutrition |-> [obj |-> TRUE, calories |-> Undef, protein |-> 1, carbs |-> Undef, fat |-> Undef]]

AnalysisReplies ==
  { [kind |-> "json", val |-> FoodOk1],
    [kind |-> "json", val |-> FoodOk2],
    [kind |-> "empty", val |-> NullAnalysis],
    [kind |-> "json", val |-> FoodEmptyObject],
    [kind |-> "json", val |-> FoodNoNutrition],
    [kind |-> "json", val |-> FoodPartial],
    [kind |-> "malformed", val |-> NullAnalysis] }

\* JSON.parse(response.text || "{}")
ParseAnalysis(reply) == IF reply.kind = "empty" THEN FoodEmptyObject ELSE reply.val

(***************************************************************************)
(* The component.                                                          *)
(***************************************************************************)
StoredMeal ==
  [id |-> 0, timestamp |-> 1, foodName |-> "Oats", nutrition |-> Nutrition(300, 10, 50, 5),
   image |-> NoImage]

StoredProfile(user, day) == [DefaultProfile(user, day) EXCEPT !.goal = WEIGHT_LOSS]

InitialProfileEntries(user) ==
  {AbsentProfile, MalformedProfile,
   StringifyProfile(StoredProfile(user, 1)), StringifyProfile(StoredProfile(user, NoDate))}

InitialMealEntries == {AbsentMeals, MalformedMeals, StringifyMeals(<<StoredMeal>>)}

\* chunks and text hold the grounding chunks and the text of the reply when
\* the operation is the arrival of a reply
Op(name, id, note) ==
  [op |-> name, id |-> id, note |-> note, chunks |-> << >>, text |-> << >>]

\* the render throws a TypeError: the analysis panel reads
\* analyzedFood.nutrition.calories, the meal list reads m.nutrition.calories
RenderThrows(user, capturing, food, busy, ms) ==
  /\ Truthy(user)
  /\ \/ capturing /\ ~food.isNull /\ ~busy /\ ~food.nutrition.obj
     \/ \E i \in 1 .. Len(ms) : ~ms[i].nutrition.obj

Rendered(user, capturing, food, busy, ms) ==
  IF RenderThrows(user, capturing, food, busy, ms) THEN "render" ELSE "none"

AllEffects == [user |-> TRUE, data |-> TRUE]
DataEffects == [user |-> FALSE, data |-> TRUE]
NoEffects == [user |-> FALSE, data |-> FALSE]

\* the state of a freshly mounted component, before its effects run
Mounted ==
  /\ currentUser = activeUser
  /\ profile = NullProfile
  /\ meals = << >>
  /\ totals = ZeroTotals
  /\ agentFeedback = NullDecision
  /\ isAgentThinking = FALSE
  /\ analyzedFood = NullAnalysis
  /\ loading = FALSE
  /\ imagePreview = NoImage
  /\ isCapturing = FALSE
  /\ capture = << >>
  /\ pending = << >>
  /\ chats = 0
  /\ effects = AllEffects
  /\ crashed = "none"

Init ==
  /\ today = 1
  /\ activeUser \in {NoUser, "a"}
  /\ \E pe \in InitialProfileEntries("a"), me \in InitialMealEntries :
       store = [u \in Users |->
                  IF u = "a" THEN [profile |-> pe, meals |-> me]
                  ELSE [profile |-> AbsentProfile, meals |-> AbsentMeals]]
  /\ nextId = 0
  /\ lastOp = Op("mount", 0, "")
  /\ Mounted

\* no flush of effects is due and the tree is mounted: a handler can run
Idle == crashed = "none" /\ ~effects.user /\ ~effects.data

\* ReconcileDayMutant: the date is brought up to today, the list is kept
ReconcileKeepsMeals(p, storedMeals, day) ==
  [profile |-> [p EXCEPT !.lastActiveDate = day], meals |-> storedMeals]

\* ReconcileDayMutant: the list is cleared on every load
ReconcileAlwaysClears(p, storedMeals, day) ==
  [profile |-> [p EXCEPT !.lastActiveDate = day], meals |-> << >>]

\* if (p.lastActiveDate !== today) { m = []; p.lastActiveDate = today; }
ReconcileDay(p, storedMeals, day) ==
  IF p.lastActiveDate # day
  THEN [profile |-> [p EXCEPT !.lastActiveDate = day], meals |-> << >>]
  ELSE [profile |-> p, meals |-> storedMeals]

\* ShouldTriggerMutant: the persist effect never asks for advice
NeverTrigger(ms) == FALSE

\* if (meals.length > 0) is absent from src/App.tsx: every persist triggers
ShouldTrigger(ms) == TRUE

\* ThinkingAfterFlushMutant: a flush that issues no request clears the flag
ThinkingOnlyIfTriggered(thinking, triggered) == triggered

\* setIsAgentThinking(true) runs in a flush that calls triggerAgentUpdate
\* with a profile; no other flush touches the flag
ThinkingAfterFlush(thinking, triggered) == triggered \/ thinking

\* The flush of the two effects after a render.  The load effect runs when
\* currentUser changed, the persist effect when any of meals, profile and
\* currentUser changed; both see the rendered state, and the setProfile and
\* setMeals of the load effect take effect in the render that follows.  An
\* exception in the load effect skips the persist effect of the same flush.
Effects ==
  /\ crashed = "none"
  /\ effects.user \/ effects.data
  /\ LET runLoad == effects.user /\ Truthy(currentUser)
         throws == /\ runLoad
                   /\ \/ ParseThrows(store[currentUser].profile)
                      \/ ParseThrows(store[currentUser].meals)
         loaded == ReconcileDay(ParseOr(store[currentUser].profile,
                                        DefaultProfile(currentUser, today)),
                                ParseOr(store[currentUser].meals, << >>), today)
         runPersist == ~throws /\ Truthy(currentUser) /\ ~profile.isNull
         runTrigger == runPersist /\ ShouldTrigger(meals)
         note == IF ~runLoad THEN "persist"
                 ELSE IF throws THEN "throw"
                 ELSE IF store[currentUser].profile.kind # "json" THEN "default"
                 ELSE IF store[currentUser].profile.val.lastActiveDate = today THEN "keep"
                 ELSE IF store[currentUser].profile.val.lastActiveDate = NoDate THEN "nodate"
                 ELSE "reset"
     IN /\ runTrigger => Len(pending) < MaxPending
        /\ store' = IF runPersist
                    THEN [store EXCEPT ![currentUser] =
                            [profile |-> StringifyProfile(profile),
                             meals |-> StringifyMeals(meals)]]
                    ELSE store
        /\ pending' = IF runTrigger
                      THEN Append(pending, [profile |-> profile, meals |-> meals])
                      ELSE pending
        /\ isAgentThinking' = ThinkingAfterFlush(isAgentThinking, runTrigger)
        /\ profile' = IF runLoad /\ ~throws THEN loaded.profile ELSE profile
        /\ meals' = IF runLoad /\ ~throws THEN loaded.meals ELSE meals
        /\ totals' = Totals(meals')
        /\ effects' = IF runLoad /\ ~throws THEN DataEffects ELSE NoEffects
        /\ crashed' = IF throws THEN "load"
                      ELSE Rendered(currentUser, isCapturing, analyzedFood, loading, meals')
        /\ lastOp' = Op(IF runLoad THEN "load" ELSE "effects",
                        IF runLoad /\ ~throws
                        THEN Len(ParseOr(store[currentUser].meals, << >>)) ELSE 0,
                        note)
  /\ UNCHANGED <<today, activeUser, currentUser, agentFeedback, analyzedFood, loading,
                 imagePreview, isCapturing, capture, chats, nextId>>

\* onSubmit of the login form: setCurrentUser(loginInput)
Login(u) ==
  /\ Idle
  /\ ~Truthy(currentUser)
  /\ u # currentUser
  /\ currentUser' = u
  /\ effects' = AllEffects
  /\ crashed' = Rendered(u, isCapturing, analyzedFood, loading, meals)
  /\ lastOp' = Op("login", 0, u)
  /\ UNCHANGED <<today, activeUser, store, profile, meals, totals, agentFeedback,
                 isAgentThinking, analyzedFood, loading, imagePreview, isCapturing,
                 capture, pending, chats, nextId>>

\* onClick of Terminate Session: setCurrentUser(null)
Logout ==
  /\ Idle
  /\ Truthy(currentUser)
  /\ currentUser' = NoUser
  /\ effects' = AllEffects
  /\ lastOp' = Op("logout", 0, "")
  /\ UNCHANGED <<today, activeUser, store, profile, meals, totals, agentFeedback,
                 isAgentThinking, analyzedFood, loading, imagePreview, isCapturing,
                 capture, pending, chats, nextId, crashed>>

\* RemoveByIdMutant: the filter keeps the clicked record and drops the others
KeepById(ms, id) == SelectSeq(ms, LAMBDA x : x.id = id)

\* meals.filter(x => x.id !== m.id)
RemoveById(ms, id) == SelectSeq(ms, LAMBDA x : x.id # id)

\* onClick of the delete button of the meal with this id
RemoveMeal(id) ==
  /\ Idle
  /\ Truthy(currentUser)
  /\ \E i \in 1 .. Len(meals) : meals[i].id = id
  /\ meals' = RemoveById(meals, id)
  /\ totals' = Totals(meals')
  /\ effects' = DataEffects
  /\ crashed' = Rendered(currentUser, isCapturing, analyzedFood, loading, meals')
  /\ lastOp' = Op("removeMeal", id, "")
  /\ UNCHANGED <<today, activeUser, store, currentUser, profile, agentFeedback,
                 isAgentThinking, analyzedFood, loading, imagePreview, isCapturing,
                 capture, pending, chats, nextId>>

\* { id: crypto.randomUUID(), timestamp: Date.now(), foodName, nutrition, image }
NewMeal(id, day, food, image) ==
  [id |-> id, timestamp |-> day, foodName |-> food.foodName, nutrition |-> food.nutrition,
   image |-> image]

\* AppendMealMutant: the new record is put first
PrependMeal(ms, m) == <<m>> \o ms

\* [...meals, m]
AppendMeal(ms, m) == Append(ms, m)

\* onClick of Push to Bio-Sequence, the button of the analysis panel
AddMeal ==
  /\ Idle
  /\ Truthy(currentUser)
  /\ isCapturing /\ ~analyzedFood.isNull /\ ~loading
  /\ Len(meals) < MaxMeals /\ nextId < MaxId
  /\ nextId' = nextId + 1
  /\ meals' = AppendMeal(meals, NewMeal(nextId', today, analyzedFood, imagePreview))
  /\ totals' = Totals(meals')
  /\ analyzedFood' = NullAnalysis
  /\ imagePreview' = NoImage
  /\ isCapturing' = FALSE
  /\ effects' = DataEffects
  /\ crashed' = Rendered(currentUser, isCapturing', analyzedFood', loading, meals')
  /\ lastOp' = Op("addMeal", nextId', "")
  /\ UNCHANGED <<today, activeUser, store, currentUser, profile, agentFeedback,
                 isAgentThinking, loading, capture, pending, chats>>

\* onClick of New Input: setIsCapturing(true)
OpenCapture ==
  /\ Idle
  /\ Truthy(currentUser)
  /\ ~isCapturing
  /\ isCapturing' = TRUE
  /\ crashed' = Rendered(currentUser, TRUE, analyzedFood, loading, meals)
  /\ lastOp' = Op("openCapture", 0, "")
  /\ UNCHANGED <<today, activeUser, store, currentUser, profile, meals, totals,
                 agentFeedback, isAgentThinking, analyzedFood, loading, imagePreview,
                 capture, pending, chats, nextId, effects>>

\* onClick of the close button of the drawer: setIsCapturing(false)
CloseCapture ==
  /\ Idle
  /\ Truthy(currentUser)
  /\ isCapturing
  /\ isCapturing' = FALSE
  /\ lastOp' = Op("closeCapture", 0, "")
  /\ UNCHANGED <<today, activeUser, store, currentUser, profile, meals, totals,
                 agentFeedback, isAgentThinking, analyzedFood, loading, imagePreview,
                 capture, pending, chats, nextId, effects, crashed>>

\* handleCapture up to reader.readAsDataURL(file); the file input is shown
\* while there is no analysis and loading is false
HandleCapture(img) ==
  /\ Idle
  /\ Truthy(currentUser)
  /\ isCapturing /\ analyzedFood.isNull /\ ~loading
  /\ Len(capture) < MaxCaptures
  /\ loading' = TRUE
  /\ capture' = Append(capture, [stage |-> "reading", image |-> img])
  /\ lastOp' = Op("handleCapture", 0, img)
  /\ UNCHANGED <<today, activeUser, store, currentUser, profile, meals, totals,
                 agentFeedback, isAgentThinking, analyzedFood, imagePreview, isCapturing,
                 pending, chats, nextId, effects, crashed>>

RemoveAt(q, i) == SubSeq(q, 1, i - 1) \o SubSeq(q, i + 1, Len(q))

\* reader.onloadend up to the await of analyzeFoodImage
ReaderLoadEnd(i) ==
  /\ crashed = "none"
  /\ i \in 1 .. Len(capture) /\ capture[i].stage = "reading"
  /\ imagePreview' = capture[i].image
  /\ capture' = [capture EXCEPT ![i].stage = "analyzing"]
  /\ lastOp' = Op("readerLoadEnd", 0, capture[i].image)
  /\ UNCHANGED <<today, activeUser, store, currentUser, profile, meals, totals,
                 agentFeedback, isAgentThinking, analyzedFood, loading, isCapturing,
                 pending, chats, nextId, effects, crashed>>

\* the analysis request resolves: JSON.parse of the reply, setAnalyzedFood,
\* and the finally; a SyntaxError is caught and logged
AnalysisResolve(i, reply) ==
  /\ crashed = "none"
  /\ i \in 1 .. Len(capture) /\ capture[i].stage = "analyzing"
  /\ analyzedFood' = IF ParseThrows(reply) THEN analyzedFood ELSE ParseAnalysis(reply)
  /\ loading' = FALSE
  /\ capture' = RemoveAt(capture, i)
  /\ crashed' = Rendered(currentUser, isCapturing, analyzedFood', FALSE, meals)
  /\ lastOp' = Op("analysisResolve", 0, reply.kind)
  /\ UNCHANGED <<today, activeUser, store, currentUser, profile, meals, totals,
                 agentFeedback, isAgentThinking, imagePreview, isCapturing,
                 pending, chats, nextId, effects>>

\* the analysis request rejects: the catch logs, the finally clears loading
AnalysisReject(i) ==
  /\ crashed = "none"
  /\ i \in 1 .. Len(capture) /\ capture[i].stage = "analyzing"
  /\ loading' = FALSE
  /\ capture' = RemoveAt(capture, i)
  /\ crashed' = Rendered(currentUser, isCapturing, analyzedFood, FALSE, meals)
  /\ lastOp' = Op("analysisReject", 0, "")
  /\ UNCHANGED <<today, activeUser, store, currentUser, profile, meals, totals,
                 agentFeedback, isAgentThinking, analyzedFood, imagePreview, isCapturing,
                 pending, chats, nextId, effects>>

\* FailureKeepsDecisionMutant: a failed request displays the fallback decision
FallbackOnFailure(decision) == ParseDecision([hasText |-> FALSE, text |-> << >>, chunks |-> << >>])

\* catch (e) { console.error(...) }: the displayed decision stays as it is
DecisionAfterFailure(decision) == decision

\* SetAgentFeedbackMutant: the reply to a request is dropped when a request
\* issued after it is still outstanding
SetIfLatest(current, decision, i, n) == IF i = n THEN decision ELSE current

\* setAgentFeedback(decision), for the reply to the i-th of n outstanding
\* requests: nothing compares the request with the ones issued after it
SetAgentFeedback(current, decision, i, n) == decision

\* triggerAgentUpdate after the await, the request resolved:
\* setAgentFeedback(decision) and the finally
AgentResolve(i, reply) ==
  /\ crashed = "none"
  /\ i \in 1 .. Len(pending)
  /\ agentFeedback' = SetAgentFeedback(agentFeedback, ParseDecision(reply), i, Len(pending))
  /\ isAgentThinking' = FALSE
  /\ pending' = RemoveAt(pending, i)
  /\ lastOp' = [Op("agentResolve", i, IF NoLabels(reply) THEN "nolabels" ELSE "labels")
                  EXCEPT !.chunks = reply.chunks, !.text = ResponseText(reply)]
  /\ UNCHANGED <<today, activeUser, store, currentUser, profile, meals, totals,
                 analyzedFood, loading, imagePreview, isCapturing, capture, chats,
                 nextId, effects, crashed>>

\* triggerAgentUpdate after the await, the request rejected: the catch and
\* the finally
AgentReject(i) ==
  /\ crashed = "none"
  /\ i \in 1 .. Len(pending)
  /\ agentFeedback' = DecisionAfterFailure(agentFeedback)
  /\ isAgentThinking' = FALSE
  /\ pending' = RemoveAt(pending, i)
  /\ lastOp' = Op("agentReject", i, "")
  /\ UNCHANGED <<today, activeUser, store, currentUser, profile, meals, totals,
                 analyzedFood, loading, imagePreview, isCapturing, capture, chats,
                 nextId, effects, crashed>>

\* onSubmit of the chat form up to the await of askAgent: setLoading(true)
ChatSubmit ==
  /\ Idle
  /\ Truthy(currentUser)
  /\ ~profile.isNull
  /\ chats < MaxChats
  /\ chats' = chats + 1
  /\ loading' = TRUE
  /\ lastOp' = Op("chatSubmit", 0, "")
  /\ UNCHANGED <<today, activeUser, store, currentUser, profile, meals, totals,
                 agentFeedback, isAgentThinking, analyzedFood, imagePreview, isCapturing,
                 capture, pending, nextId, effects, crashed>>

\* the chat request settles either way: the finally does setLoading(false)
ChatSettle ==
  /\ crashed = "none"
  /\ chats > 0
  /\ chats' = chats - 1
  /\ loading' = FALSE
  /\ crashed' = Rendered(currentUser, isCapturing, analyzedFood, FALSE, meals)
  /\ lastOp' = Op("chatSettle", 0, "")
  /\ UNCHANGED <<today, activeUser, store, currentUser, profile, meals, totals,
                 agentFeedback, isAgentThinking, analyzedFood, imagePreview, isCapturing,
                 capture, pending, nextId, effects>>

\* onChange of the goal select: setProfile(p => p ? {...p, goal} : null)
EditGoal(g) ==
  /\ Idle
  /\ Truthy(currentUser)
  /\ ~profile.isNull
  /\ g # profile.goal
  /\ profile' = [profile EXCEPT !.goal = g]
  /\ effects' = DataEffects
  /\ lastOp' = Op("editGoal", 0, g)
  /\ UNCHANGED <<today, activeUser, store, currentUser, meals, totals, agentFeedback,
                 isAgentThinking, analyzedFood, loading, imagePreview, isCapturing,
                 capture, pending, chats, nextId, crashed>>

\* what parseInt makes of the text of a number input: a number, or NaN when
\* the field was emptied
AgeInputs == {31, NaN}

\* onChange of the age input: setProfile(p => p ? {...p, age: parseInt(value)} : null)
EditAge(v) ==
  /\ Idle
  /\ Truthy(currentUser)
  /\ ~profile.isNull
  /\ v # profile.age
  /\ profile' = [profile EXCEPT !.age = v]
  /\ effects' = DataEffects
  /\ lastOp' = Op("editAge", 0, "")
  /\ UNCHANGED <<today, activeUser, store, currentUser, meals, totals, agentFeedback,
                 isAgentThinking, analyzedFood, loading, imagePreview, isCapturing,
                 capture, pending, chats, nextId, crashed>>

\* the wall clock passes midnight
Midnight ==
  /\ today < MaxDay
  /\ today' = today + 1
  /\ lastOp' = Op("midnight", 0, "")
  /\ UNCHANGED <<activeUser, store, currentUser, profile, meals, totals, agentFeedback,
                 isAgentThinking, analyzedFood, loading, imagePreview, isCapturing,
                 capture, pending, chats, nextId, effects, crashed>>

\* the page is loaded again: the component is constructed anew and what
\* was in flight is gone with the old page
Reload ==
  /\ UNCHANGED <<today, activeUser, store, nextId>>
  /\ lastOp' = Op("reload", 0, "")
  /\ currentUser' = activeUser
  /\ profile' = NullProfile
  /\ meals' = << >>
  /\ totals' = ZeroTotals
  /\ agentFeedback' = NullDecision
  /\ isAgentThinking' = FALSE
  /\ analyzedFood' = NullAnalysis
  /\ loading' = FALSE
  /\ imagePreview' = NoImage
  /\ isCapturing' = FALSE
  /\ capture' = << >>
  /\ pending' = << >>
  /\ chats' = 0
  /\ effects' = AllEffects
  /\ crashed' = "none"

(***************************************************************************)
(* The whole system: every handler at any moment it can run, every reply.  *)
(***************************************************************************)
Next ==
  \/ Effects
  \/ \E u \in LoginInputs : Login(u)
  \/ Logout
  \/ \E id \in 0 .. MaxId : RemoveMeal(id)
  \/ AddMeal
  \/ OpenCapture
  \/ CloseCapture
  \/ \E img \in Images : HandleCapture(img)
  \/ \E i \in 1 .. MaxCaptures : ReaderLoadEnd(i)
  \/ \E i \in 1 .. MaxCaptures, reply \in AnalysisReplies : AnalysisResolve(i, reply)
  \/ \E i \in 1 .. MaxCaptures : AnalysisReject(i)
  \/ \E i \in 1 .. MaxPending, reply \in AdviceReplies : AgentResolve(i, reply)
  \/ \E i \in 1 .. MaxPending : AgentReject(i)
  \/ ChatSubmit
  \/ ChatSettle
  \/ \E g \in DietGoal : EditGoal(g)
  \/ \E v \in AgeInputs : EditAge(v)
  \/ Midnight
  \/ Reload

Spec == Init /\ [][Next]_vars

(***************************************************************************)
(* The ledger in sequential use.  The user acts when nothing is in flight, *)
(* works in the capture drawer while it is open (it is a modal overlay)    *)
(* and does not chat; the collaborator answers an advice request with a    *)
(* text without labels or not at all, an analysis with a complete or a     *)
(* partial nutrition tuple.  Midnight and a reload of the page come at any *)
(* moment.                                                                 *)
(***************************************************************************)
Quiet == pending = << >> /\ capture = << >> /\ chats = 0

PlainReply == [hasText |-> FALSE, text |-> << >>, chunks |-> << >>]

LedgerAnalysisReplies ==
  { [kind |-> "json", val |-> FoodOk1],
    [kind |-> "json", val |-> FoodPartial] }

LedgerLogins == {"a", EmptyUser}

NextLedger ==
  \/ Effects
  \/ \E u \in LedgerLogins : Quiet /\ Login(u)
  \/ Quiet /\ ~isCapturing /\ Logout
  \/ \E id \in 0 .. MaxId : Quiet /\ ~isCapturing /\ RemoveMeal(id)
  \/ Quiet /\ AddMeal
  \/ Quiet /\ OpenCapture
  \/ Quiet /\ HandleCapture("img1")
  \/ ReaderLoadEnd(1)
  \/ \E reply \in LedgerAnalysisReplies : AnalysisResolve(1, reply)
  \/ AgentResolve(1, PlainReply)
  \/ AgentReject(1)
  \/ Midnight
  \/ Reload

SpecLedger == Init /\ [][NextLedger]_vars

(***************************************************************************)
(* The advice refresh.  One identity with a stored ledger of today; the    *)
(* user edits the goal at any moment, so that requests overlap, and the    *)
(* collaborator answers each request with any reply or with a failure.     *)
(***************************************************************************)
InitAdvice ==
  /\ today = 1
  /\ activeUser = "a"
  /\ store = [u \in Users |->
                IF u = "a"
                THEN [profile |-> StringifyProfile(StoredProfile("a", 1)),
                      meals |-> StringifyMeals(<<StoredMeal>>)]
                ELSE [profile |-> AbsentProfile, meals |-> AbsentMeals]]
  /\ nextId = 0
  /\ lastOp = Op("mount", 0, "")
  /\ Mounted

NextAdvice ==
  \/ Effects
  \/ \E g \in DietGoal : EditGoal(g)
  \/ \E i \in 1 .. MaxPending, reply \in AdviceReplies : AgentResolve(i, reply)
  \/ \E i \in 1 .. MaxPending : AgentReject(i)

SpecAdvice == InitAdvice /\ [][NextAdvice]_vars

(***************************************************************************)
(* The capture drawer.  One identity without stored data; every kind of    *)
(* analysis reply, chat requests that share the loading flag, the drawer   *)
(* opened and closed while captures are in flight.  The user acts when no  *)
(* advice request is in flight.                                            *)
(***************************************************************************)
InitCapture ==
  /\ today = 1
  /\ activeUser = "a"
  /\ store = [u \in Users |-> [profile |-> AbsentProfile, meals |-> AbsentMeals]]
  /\ nextId = 0
  /\ lastOp = Op("mount", 0, "")
  /\ Mounted

CaptureReplies ==
  AnalysisReplies \ {[kind |-> "json", val |-> FoodOk2], [kind |-> "json", val |-> FoodEmptyObject]}

NextCapture ==
  \/ Effects
  \/ pending = << >> /\ OpenCapture
  \/ pending = << >> /\ CloseCapture
  \/ pending = << >> /\ HandleCapture("img1")
  \/ \E i \in 1 .. MaxCaptures : ReaderLoadEnd(i)
  \/ \E i \in 1 .. MaxCaptures, reply \in CaptureReplies : AnalysisResolve(i, reply)
  \/ \E i \in 1 .. MaxCaptures : AnalysisReject(i)
  \/ pending = << >> /\ AddMeal
  \/ pending = << >> /\ ChatSubmit
  \/ ChatSettle
  \/ \E i \in 1 .. MaxPending : AgentResolve(i, PlainReply)

SpecCapture == InitCapture /\ [][NextCapture]_vars

(***************************************************************************)
(* One session of one identity.  The ledger is loaded from what an earlier *)
(* session stored, the user edits the profile, removes and adds meals when *)
(* nothing is in flight, and the collaborator answers each advice request  *)
(* with a WARNING, with a text without labels, or with a failure.          *)
(***************************************************************************)
InitSession ==
  /\ today = 1
  /\ activeUser = "a"
  /\ \E pe \in {AbsentProfile, StringifyProfile(StoredProfile("a", 1))},
        me \in {AbsentMeals, StringifyMeals(<<StoredMeal>>)} :
       store = [u \in Users |->
                  IF u = "a" THEN [profile |-> pe, meals |-> me]
                  ELSE [profile |-> AbsentProfile, meals |-> AbsentMeals]]
  /\ nextId = 0
  /\ lastOp = Op("mount", 0, "")
  /\ Mounted

WarningReply ==
  [hasText |-> TRUE, text |-> <<"STATUS:", SP, "WARNING">>, chunks |-> << >>]

NextSession ==
  \/ Effects
  \/ \E id \in 0 .. MaxId : Quiet /\ ~isCapturing /\ RemoveMeal(id)
  \/ \E g \in DietGoal : Quiet /\ ~isCapturing /\ EditGoal(g)
  \/ \E v \in AgeInputs : Quiet /\ ~isCapturing /\ EditAge(v)
  \/ Quiet /\ AddMeal
  \/ Quiet /\ OpenCapture
  \/ Quiet /\ HandleCapture("img1")
  \/ ReaderLoadEnd(1)
  \/ AnalysisResolve(1, [kind |-> "json", val |-> FoodOk1])
  \/ \E reply \in {PlainReply, WarningReply} : AgentResolve(1, reply)
  \/ AgentReject(1)
  \/ Midnight
  \/ Reload

SpecSession == InitSession /\ [][NextSession]_vars

(***************************************************************************)
(* Overlapping advice requests.  The user edits the goal and removes the   *)
(* stored meal at any moment, logs out and in and reloads the page, so that *)
(* requests for different states of the ledger are in flight together; the *)
(* collaborator answers them in any order or not at all, each with a       *)
(* status that tells which state it was asked about.                       *)
(***************************************************************************)
StatusFor(request) ==
  IF request.meals = << >> THEN "OPTIMAL"
  ELSE IF request.profile.goal = WEIGHT_LOSS THEN "WARNING" ELSE "CRITICAL"

ReplyFor(request) ==
  [hasText |-> TRUE, text |-> <<"STATUS:", SP, StatusFor(request)>>, chunks |-> << >>]

NextOverlap ==
  \/ Effects
  \/ \E g \in DietGoal : EditGoal(g)
  \/ \E id \in 0 .. MaxId : RemoveMeal(id)
  \/ OpenCapture
  \/ CloseCapture
  \/ Logout
  \/ Login("a")
  \/ Midnight
  \/ Reload
  \/ \E i \in 1 .. MaxPending : i <= Len(pending) /\ AgentResolve(i, ReplyFor(pending[i]))

SpecOverlap == InitAdvice /\ [][NextOverlap]_vars

(***************************************************************************)
(* The references of a decision.  The collaborator answers each advice     *)
(* request with any list of at most MaxChunks grounding chunks, web-backed *)
(* or not.                                                                 *)
(***************************************************************************)
ChunkLists ==
  UNION {[1 .. n -> {WebChunk("r1"), WebChunk("r2"), OtherChunk}] : n \in 0 .. MaxChunks}

NextRecipes ==
  \/ Effects
  \/ \E g \in DietGoal : EditGoal(g)
  \/ \E c \in ChunkLists :
       AgentResolve(1, [hasText |-> FALSE, text |-> << >>, chunks |-> c])

SpecRecipes == InitAdvice /\ [][NextRecipes]_vars

(***************************************************************************)
(* The dashboard.  One identity whose stored profile has the targets 2200  *)
(* and 160 and no meals yet; the user captures meals that the collaborator *)
(* analyses as 500 kcal with 30 g protein or as 700 kcal with 45 g, accepts*)
(* them and removes them again.                                            *)
(***************************************************************************)
InitDashboard ==
  /\ today = 1
  /\ activeUser = "a"
  /\ store = [u \in Users |->
                IF u = "a"
                THEN [profile |-> StringifyProfile(
                                    [DefaultProfile("a", 1) EXCEPT
                                       !.dailyCalorieTarget = 2200,
                                       !.dailyProteinTarget = 160]),
                      meals |-> AbsentMeals]
                ELSE [profile |-> AbsentProfile, meals |-> AbsentMeals]]
  /\ nextId = 0
  /\ lastOp = Op("mount", 0, "")
  /\ Mounted

NextDashboard ==
  \/ Effects
  \/ \E id \in 0 .. MaxId : Quiet /\ ~isCapturing /\ RemoveMeal(id)
  \/ Quiet /\ AddMeal
  \/ Quiet /\ OpenCapture
  \/ Quiet /\ HandleCapture("img1")
  \/ ReaderLoadEnd(1)
  \/ \E food \in {FoodOk1, FoodOk2} : AnalysisResolve(1, [kind |-> "json", val |-> food])
  \/ AgentResolve(1, PlainReply)
  \/ Reload

SpecDashboard == InitDashboard /\ [][NextDashboard]_vars

(***************************************************************************)
(* The prompt.  One identity whose stored profile has the usual targets or *)
(* low ones, with or without a stored meal; the user edits the goal, adds  *)
(* meals with a complete or a partial nutrition tuple and removes meals,   *)
(* so that advice is asked for ledgers under and over the calorie target   *)
(* and for ledgers whose totals are not numbers.                           *)
(***************************************************************************)
LowTargets(user, day) ==
  [DefaultProfile(user, day) EXCEPT !.dailyCalorieTarget = 1000, !.dailyProteinTarget = 50]

InitPrompt ==
  /\ today = 1
  /\ activeUser = "a"
  /\ \E p \in {StoredProfile("a", 1), LowTargets("a", 1)},
        me \in {AbsentMeals, StringifyMeals(<<StoredMeal>>)} :
       store = [u \in Users |->
                  IF u = "a" THEN [profile |-> StringifyProfile(p), meals |-> me]
                  ELSE [profile |-> AbsentProfile, meals |-> AbsentMeals]]
  /\ nextId = 0
  /\ lastOp = Op("mount", 0, "")
  /\ Mounted

NextPrompt ==
  \/ Effects
  \/ \E id \in 0 .. MaxId : Quiet /\ ~isCapturing /\ RemoveMeal(id)
  \/ \E g \in DietGoal : Quiet /\ ~isCapturing /\ EditGoal(g)
  \/ Quiet /\ AddMeal
  \/ Quiet /\ OpenCapture
  \/ Quiet /\ HandleCapture("img1")
  \/ ReaderLoadEnd(1)
  \/ \E food \in {FoodOk2, FoodPartial} : AnalysisResolve(1, [kind |-> "json", val |-> food])
  \/ AgentResolve(1, PlainReply)

SpecPrompt == InitPrompt /\ [][NextPrompt]_vars

(***************************************************************************)
(* Two identities on one device.  Identity a has a stored profile and a    *)
(* stored meal, identity b a stored profile or nothing; the user logs out  *)
(* and logs in as either of them, edits the goal and reloads the page at   *)
(* any moment, and the collaborator answers the requests in any order.     *)
(***************************************************************************)
\* the meals an identity has stored when the model starts
InitialRecords(u) == IF u = "a" THEN {StoredMeal} ELSE {}

InitSwitch ==
  /\ today = 1
  /\ activeUser = "a"
  /\ \E pb \in {AbsentProfile, StringifyProfile(StoredProfile("b", 1))} :
       store = [u \in Users |->
                  IF u = "a"
                  THEN [profile |-> StringifyProfile(StoredProfile("a", 1)),
                        meals |-> StringifyMeals(<<StoredMeal>>)]
                  ELSE [profile |-> pb, meals |-> AbsentMeals]]
  /\ nextId = 0
  /\ lastOp = Op("mount", 0, "")
  /\ Mounted

NextSwitch ==
  \/ Effects
  \/ Logout
  \/ \E u \in Users : Login(u)
  \/ \E g \in DietGoal : EditGoal(g)
  \/ \E i \in 1 .. MaxPending : i <= Len(pending) /\ AgentResolve(i, ReplyFor(pending[i]))
  \/ Reload

SpecSwitch == InitSwitch /\ [][NextSwitch]_vars

(***************************************************************************)
(* Properties.                                                             *)
(***************************************************************************)
IsNumber(x) == x >= 0

\* the sum of one nutrition field over the records of a list, in the
\* arithmetic of the program: a record without the field makes it NaN
FieldSum(ms, f) ==
  LET RECURSIVE Sum(_)
      Sum(S) == IF S = {} THEN 0
                ELSE LET i == CHOOSE j \in S : TRUE
                     IN ms[i].nutrition[f] + Sum(S \ {i})
  IN IF \E i \in 1 .. Len(ms) : ~IsNumber(ms[i].nutrition[f]) THEN NaN
     ELSE Sum(1 .. Len(ms))

\* C1: while the tree is mounted, the totals on display are, field by field,
\* the sum over exactly the records now in the ledger (zero when it is empty),
\* after every add, remove, load and reset.
TotalsMatchLedger ==
  crashed = "none" =>
    totals = [cal |-> FieldSum(meals, "calories"), prot |-> FieldSum(meals, "protein"),
              carbs |-> FieldSum(meals, "carbs"), fat |-> FieldSum(meals, "fat")]

\* a removal left two of three records and their totals on display
TotalsAfterRemoval ==
  /\ lastOp.op = "removeMeal"
  /\ Len(meals) = 2
  /\ totals.cal > 0
  /\ crashed = "none"

\* the load effect ran to its end in this step
LoadStep == lastOp'.op = "load" /\ lastOp'.note # "throw"

StoredDate == store[currentUser].profile.val.lastActiveDate
StoredList == IF store[currentUser].meals.kind = "json" THEN store[currentUser].meals.val ELSE << >>

\* C2: a load that finds a stored profile dated D1, a stored list that is not
\* empty and today = D2 # D1 ends with an empty list and lastActiveDate = D2.
DayBoundaryReset ==
  [][(/\ LoadStep
      /\ store[currentUser].profile.kind = "json"
      /\ StoredDate \in Days /\ StoredDate # today
      /\ StoredList # << >>)
     => (meals' = << >> /\ profile'.lastActiveDate = today /\ ~profile'.isNull)]_vars

\* a load on day 2 has just cleared a stored list dated day 1
ResetHappened ==
  /\ lastOp.op = "load" /\ lastOp.note = "reset" /\ lastOp.id > 0
  /\ meals = << >>
  /\ profile.lastActiveDate = today

\* C3: a load that finds the stored lastActiveDate equal to today yields the
\* stored list, same records in the same order, and the stored profile with
\* its date unchanged; so does a second load after a reset was persisted.
SameDayKeepsList ==
  [][(/\ LoadStep
      /\ store[currentUser].profile.kind = "json"
      /\ StoredDate = today)
     => (meals' = StoredList /\ profile' = store[currentUser].profile.val)]_vars

\* a load has just kept a stored list that is not empty
KeepHappened ==
  /\ lastOp.op = "load" /\ lastOp.note = "keep" /\ lastOp.id > 0
  /\ Len(meals) = lastOp.id
  /\ profile.lastActiveDate = today

\* C4: the first addMeal or removeMeal after the date changed under a loaded
\* ledger clears the meals of the previous day and sets lastActiveDate to the
\* new date.
TouchResetsOnNewDay ==
  [][(/\ lastOp'.op \in {"addMeal", "removeMeal"}
      /\ ~profile.isNull
      /\ profile.lastActiveDate # today)
     => (/\ profile'.lastActiveDate = today
         /\ \A i \in 1 .. Len(meals') : meals'[i].timestamp = today)]_vars

\* the list without its i-th record
WithoutIndex(ms, i) == [j \in 1 .. Len(ms) - 1 |-> IF j < i THEN ms[j] ELSE ms[j + 1]]

\* C5: removing an id that the ledger of n records holds leaves n-1 records,
\* none with that id, the others in their order; the filter of the handler
\* applied with an id the ledger does not hold returns the list unchanged.
RemoveMealDeletes ==
  [][/\ lastOp'.op = "removeMeal" =>
          \E i \in 1 .. Len(meals) :
             /\ meals[i].id = lastOp'.id
             /\ Len(meals') = Len(meals) - 1
             /\ \A j \in 1 .. Len(meals') : meals'[j].id # lastOp'.id
             /\ meals' = WithoutIndex(meals, i)
     /\ \A id \in 0 .. MaxId + 1 :
          (\A i \in 1 .. Len(meals) : meals[i].id # id) => RemoveById(meals, id) = meals]_vars

\* the middle one of three records was removed, the outer two are still there
RemovalHappened ==
  /\ lastOp.op = "removeMeal"
  /\ Len(meals) = 2
  /\ meals[1].id < lastOp.id /\ lastOp.id < meals[2].id

\* C6: accepting an analysis on a ledger of n records gives n+1 records: the
\* n old ones in their order, then the new record made from the analysis.
AddMealAppends ==
  [][lastOp'.op = "addMeal" =>
       /\ Len(meals') = Len(meals) + 1
       /\ SubSeq(meals', 1, Len(meals)) = meals
       /\ meals'[Len(meals')].id = lastOp'.id
       /\ meals'[Len(meals')].foodName = analyzedFood.foodName
       /\ meals'[Len(meals')].nutrition = analyzedFood.nutrition
       /\ \A i \in 1 .. Len(meals) : meals[i].id # lastOp'.id]_vars

\* a record was appended to a ledger that already held two
AppendHappened ==
  /\ lastOp.op = "addMeal"
  /\ Len(meals) = 3
  /\ meals[3].id = lastOp.id

\* C7: load does not throw whatever the two stored entries hold.
LoadIsTotal == lastOp.op = "load" => crashed = "none"

\* C8: a reply whose text shows none of STATUS:, REASONING:, ACTION:, an
\* absent text included, yields the default decision and no failure.
FallbackDecision ==
  (lastOp.op = "agentResolve" /\ lastOp.note = "nolabels") =>
    /\ ~agentFeedback.isNull
    /\ agentFeedback.status = "OPTIMAL"
    /\ agentFeedback.reasoning = <<"Analyzing biological trends...">>
    /\ agentFeedback.suggestion = <<"Proceed with current protocol.">>
    /\ crashed = "none"

\* a reply without labels was just turned into the decision on display
FallbackHappened ==
  /\ lastOp.op = "agentResolve" /\ lastOp.note = "nolabels"
  /\ agentFeedback.status = "OPTIMAL"
  /\ ~isAgentThinking

AnalysisNeverFatal ==
  /\ crashed # "render"
  /\ \A i \in 1 .. Len(meals) : CompleteNutrition(meals[i].nutrition)
  /\ (isCapturing /\ ~analyzedFood.isNull /\ ~loading)
       => CompleteNutrition(analyzedFood.nutrition)

\* C11: the decision on display is absent or its status is one of OPTIMAL,
\* WARNING and CRITICAL, whatever word the reply writes after STATUS:.
StatusIsEnumerated ==
  agentFeedback.isNull \/ agentFeedback.status \in {"OPTIMAL", "WARNING", "CRITICAL"}

\* C12: once the add, removal, day reset or profile edit of the current
\* identity has been processed (no flush of effects is due), the list stored
\* under its meals key equals the list in memory and the profile stored under
\* its profile key equals the profile in memory.
PersistenceFollows ==
  (Idle /\ Truthy(currentUser) /\ ~profile.isNull) =>
    /\ store[currentUser].meals.kind = "json"
    /\ store[currentUser].meals.val = meals
    /\ store[currentUser].profile.kind = "json"
    /\ store[currentUser].profile.val = profile

\* a flush of the persist effect is due for a ledger that holds a meal
FlushDue ==
  /\ crashed = "none"
  /\ effects.data /\ ~effects.user
  /\ Truthy(currentUser) /\ ~profile.isNull
  /\ meals # << >>

\* C13: an addMeal or removeMeal that leaves a meal in the ledger makes a
\* flush due; while it is due the profile and the list stay as the mutation
\* left them, and the flush issues one advice request that holds exactly
\* that profile and that list (unless the page is loaded anew before it).
MutationIssuesRequest ==
  [][/\ (lastOp'.op \in {"addMeal", "removeMeal"} /\ meals' # << >> /\ crashed' = "none")
          => FlushDue'
     /\ FlushDue =>
          \/ lastOp'.op = "reload"
          \/ /\ lastOp'.op = "effects"
             /\ Len(pending') = Len(pending) + 1
             /\ SubSeq(pending', 1, Len(pending)) = pending
             /\ pending'[Len(pending')] = [profile |-> profile, meals |-> meals]
             /\ meals' = meals /\ profile' = profile
             /\ isAgentThinking'
          \/ /\ FlushDue'
             /\ meals' = meals /\ profile' = profile /\ pending' = pending]_vars

\* the request in flight holds the ledger with the record that was just added
RequestAfterMutation ==
  /\ lastOp.op = "effects"
  /\ isAgentThinking
  /\ Len(pending) = 1
  /\ pending[1] = [profile |-> profile, meals |-> meals]
  /\ Len(meals) = 2
  /\ meals[2].id = nextId /\ meals[2].timestamp = today

\* C14: while the ledger in memory is empty no step issues an advice request,
\* be it a load, a day reset, a profile edit or the removal of the last meal.
EmptyLedgerNoRequest ==
  [][meals = << >> => Len(pending') <= Len(pending)]_vars

\* C15: whenever the ledger is empty, nothing is left to process and no
\* request is outstanding, the decision on display is absent.
EmptyLedgerNoDecision ==
  (Idle /\ Truthy(currentUser) /\ meals = << >> /\ pending = << >>)
    => agentFeedback.isNull

\* C16: a request issued while another is outstanding joins it, neither
\* queued behind it nor cancelling it nor merged with it; a response settles
\* its own request only and is put on display whichever request it answers,
\* so the decision on display is that of the response that arrived last
\* (nothing else changes it while the page stays loaded).
LastWriteWins ==
  [][/\ lastOp'.op = "agentResolve" =>
          /\ lastOp'.id \in 1 .. Len(pending)
          /\ ~agentFeedback'.isNull
          /\ agentFeedback'.status = StatusFor(pending[lastOp'.id])
          /\ pending' = WithoutIndex(pending, lastOp'.id)
     /\ (lastOp'.op \in {"effects", "load"} /\ pending' # pending) =>
          /\ Len(pending') = Len(pending) + 1
          /\ SubSeq(pending', 1, Len(pending)) = pending
          /\ pending'[Len(pending')] = [profile |-> profile, meals |-> meals]
     /\ agentFeedback' # agentFeedback => lastOp'.op \in {"agentResolve", "reload"}]_vars

\* every request has settled and the response that arrived last answered a
\* request for an older state of the ledger: its decision is on display
OlderResponseWins ==
  /\ lastOp.op = "agentResolve"
  /\ Idle /\ Truthy(currentUser)
  /\ pending = << >>
  /\ agentFeedback.status # StatusFor([profile |-> profile, meals |-> meals])

\* C17: while the page stays loaded, a step that settles no advice request
\* leaves isAgentThinking true: no handler, effect or timer resets it, so it
\* stays true for as long as no response arrives.
StallKeepsThinking ==
  [][(isAgentThinking /\ lastOp'.op \notin {"agentResolve", "agentReject", "reload"})
       => isAgentThinking']_vars

\* a request is stalled, the user has logged out and the flush that followed
\* has run: the flag is still set
StalledAfterLogout ==
  /\ isAgentThinking
  /\ pending # << >>
  /\ lastOp.op = "effects"
  /\ ~Truthy(currentUser)

\* C18: the references of a decision are at most 3, and they are the first 3
\* web-backed chunks of the reply in their order, all of them when the reply
\* has fewer than 3.
RecipesAreFirstThree ==
  /\ Len(agentFeedback.suggestedRecipes) <= 3
  /\ lastOp.op = "agentResolve" =>
       LET c == lastOp.chunks
           r == agentFeedback.suggestedRecipes
           webIdx == {i \in 1 .. Len(c) : c[i].web}
           Nth(k) == CHOOSE i \in webIdx : Cardinality({j \in webIdx : j <= i}) = k
           n == IF Cardinality(webIdx) < 3 THEN Cardinality(webIdx) ELSE 3
       IN /\ Len(r) = n
          /\ \A k \in 1 .. n : r[k] = [title |-> c[Nth(k)].title, uri |-> c[Nth(k)].uri]

\* a reply of five chunks, the second without web backing, the others with:
\* the first, third and fourth are the references
ThreeOfFourKept ==
  /\ lastOp.op = "agentResolve"
  /\ Len(lastOp.chunks) = 5
  /\ \A i \in 1 .. 5 : lastOp.chunks[i].web <=> i # 2
  /\ lastOp.chunks[1].title # lastOp.chunks[3].title
  /\ Len(agentFeedback.suggestedRecipes) = 3
  /\ agentFeedback.suggestedRecipes[2].title = lastOp.chunks[3].title

\* C19: a load that finds no stored profile for the identity yields the
\* default profile, with the identity as username, the generic targets and
\* today as lastActiveDate, and so resets nothing: the list is the stored one.
DefaultProfileOnFirstLoad ==
  [][(LoadStep /\ store[currentUser].profile.kind = "absent")
       => /\ ~profile'.isNull
          /\ profile'.username = currentUser
          /\ profile'.goal = MAINTENANCE
          /\ profile'.dailyCalorieTarget = 2400
          /\ profile'.dailyProteinTarget = 150
          /\ profile'.lastActiveDate = today
          /\ meals' = StoredList]_vars

\* on day 2 a load found a stored meal and no profile: the default profile
\* is dated day 2 and the meal is in the ledger
FirstLoadHappened ==
  /\ lastOp.op = "load" /\ lastOp.note = "default" /\ lastOp.id > 0
  /\ today = 2
  /\ profile.username = "a" /\ profile.lastActiveDate = 2
  /\ Len(meals) = 1

\* C20: a load that finds a stored profile without lastActiveDate sets the
\* date to today and does not clear the stored list.
MissingDateKeepsList ==
  [][(LoadStep /\ store[currentUser].profile.kind = "json" /\ StoredDate = NoDate)
       => (profile'.lastActiveDate = today /\ meals' = StoredList)]_vars

\* C21: a reply that is structured JSON carrying status, reasoning and
\* suggestion yields the decision with exactly those values; the labelled
\* fields are matched only when the reply is not structured JSON.
StructuredReplyDecoded ==
  (lastOp.op = "agentResolve" /\ lastOp.text = JsonText) =>
    /\ ~agentFeedback.isNull
    /\ agentFeedback.status = JsonDecision.status
    /\ agentFeedback.reasoning = JsonDecision.reasoning
    /\ agentFeedback.suggestion = JsonDecision.suggestion

RecordsOf(ms) == {ms[i] : i \in 1 .. Len(ms)}

\* the records in the stored list of an identity
StoredRecords(u) == RecordsOf(store[u].meals.val)

\* id, timestamp, food name and nutrition tuple of a record
Essence(r) ==
  [id |-> r.id, timestamp |-> r.timestamp, foodName |-> r.foodName, nutrition |-> r.nutrition]

\* C22: a record of the ledger was in it before the step, or is the one made
\* from the analysis the user has just accepted, or comes from the stored
\* list being loaded; a stored record was stored before or is in the ledger
\* being persisted; and records of the ledger and of the store that share an
\* id agree on id, timestamp, food name and nutrition tuple.
MealsImmutable ==
  [][/\ \A r \in RecordsOf(meals') :
          \/ r \in RecordsOf(meals)
          \/ /\ lastOp'.op = "addMeal"
             /\ r = meals'[Len(meals')]
             /\ Essence(r) = [id |-> lastOp'.id, timestamp |-> today,
                              foodName |-> analyzedFood.foodName,
                              nutrition |-> analyzedFood.nutrition]
             /\ \A q \in RecordsOf(meals) : q.id # r.id
          \/ /\ lastOp'.op = "load"
             /\ r \in StoredRecords(currentUser)
     /\ \A u \in Users : \A r \in StoredRecords(u)' :
          r \in StoredRecords(u) \/ r \in RecordsOf(meals)
     /\ \A r \in RecordsOf(meals') :
          \A q \in RecordsOf(meals') \cup UNION {StoredRecords(u)' : u \in Users} :
             q.id = r.id => Essence(q) = Essence(r)]_vars

\* a record accepted in this or an earlier session has been stored, the page
\* was loaded anew and the load has brought the record back as it was
RecordSurvivedReload ==
  /\ lastOp.op = "load" /\ lastOp.note = "keep"
  /\ Len(meals) = 2
  /\ meals[2].id > 0
  /\ Essence(meals[2]) = [id |-> meals[2].id, timestamp |-> today,
                           foodName |-> FoodOk1.foodName, nutrition |-> FoodOk1.nutrition]

\* the ledger holds the meal of 500 kcal and 30 g protein and the meal of
\* 700 kcal and 45 g protein, the targets are 2200 kcal and 160 g
TwoMealLedger ==
  /\ crashed = "none"
  /\ ~profile.isNull
  /\ profile.dailyCalorieTarget = 2200 /\ profile.dailyProteinTarget = 160
  /\ Len(meals) = 2
  /\ \E i, j \in 1 .. 2 :
       /\ i # j
       /\ meals[i].nutrition.calories = 500 /\ meals[i].nutrition.protein = 30
       /\ meals[j].nutrition.calories = 700 /\ meals[j].nutrition.protein = 45

\* a fraction as a percentage in tenths of a percent, rounded to the nearest
TenthsOfPercent(num, den) == (2000 * num + den) \div (2 * den)

\* C23: with that ledger the totals are 1200 kcal and 75 g protein, the
\* calorie progress is 1200/2200, which is 54.5% to one decimal (and is shown
\* rounded to the whole percent, 55), and the protein progress is 75/160,
\* which is 46.9% to one decimal (the bar is 46.875% wide).
ScenarioTotals ==
  TwoMealLedger =>
    /\ totals.cal = 1200 /\ totals.prot = 75
    /\ Ratio(totals.cal, CalTarget(profile)) = [nan |-> FALSE, num |-> 1200, den |-> 2200]
    /\ TenthsOfPercent(totals.cal, CalTarget(profile)) = 545
    /\ Efficiency(totals, profile) = 55
    /\ Ratio(totals.prot, ProtTarget(profile)) = [nan |-> FALSE, num |-> 75, den |-> 160]
    /\ TenthsOfPercent(totals.prot, ProtTarget(profile)) = 469
    /\ ProteinWidth(totals, profile) = [nan |-> FALSE, num |-> 7500, den |-> 160]

\* the second of the two meals was just accepted and the dashboard shows them
ScenarioReached ==
  /\ TwoMealLedger
  /\ lastOp.op = "addMeal"
  /\ totals.cal = 1200

\* C25: the prompt of every advice request in flight embeds the goal and the
\* two targets of the profile it was asked for, calorie and protein totals
\* equal to the totals the dashboard computes for the same list, one history
\* line per meal in the order of the ledger, and target minus total
\* calories as the remaining figure, negative when the total is over target.
PromptMatchesLedger ==
  \A i \in 1 .. Len(pending) :
     LET p == pending[i].profile
         ms == pending[i].meals
         prompt == BuildPrompt(p, ms)
         t == Totals(ms)
     IN /\ prompt.goal = p.goal
        /\ prompt.targetCalories = [kind |-> "number", value |-> p.dailyCalorieTarget]
        /\ prompt.targetProtein = [kind |-> "number", value |-> p.dailyProteinTarget]
        /\ prompt.totalCalories = Show(t.cal)
        /\ prompt.totalProtein = Show(t.prot)
        /\ Len(prompt.mealList) = Len(ms)
        /\ prompt.noData <=> ms = << >>
        /\ \A k \in 1 .. Len(ms) :
             /\ prompt.mealList[k].foodName = ms[k].foodName
             /\ prompt.mealList[k].calories = Show(ms[k].nutrition.calories)
             /\ prompt.mealList[k].protein = Show(ms[k].nutrition.protein)
        /\ IF IsNumber(t.cal)
           THEN /\ prompt.remaining.kind = "number"
                /\ prompt.remaining.value + t.cal = p.dailyCalorieTarget
                /\ prompt.remaining.value < 0 <=> t.cal > p.dailyCalorieTarget
           ELSE prompt.remaining.kind = "NaN"

\* advice is asked for a ledger of two meals that is over the calorie target:
\* the remaining figure of the prompt is negative
PromptOverTarget ==
  /\ Len(pending) = 1
  /\ Len(pending[1].meals) = 2
  /\ pending[1].meals = meals
  /\ totals.cal > pending[1].profile.dailyCalorieTarget
  /\ BuildPrompt(pending[1].profile, pending[1].meals).remaining.value < 0

\* C26: a load never drops a stored meal that was recorded on the day of the
\* load: what a day reset removes was added on an earlier day.
ResetSparesToday ==
  [][LoadStep =>
       \A r \in StoredRecords(currentUser) :
          r.timestamp = today => r \in RecordsOf(meals')]_vars

\* C27: in every state the profile stored under the keys of an identity is
\* a profile of that identity and the meals stored under its keys are meals
\* of its own, also between a logout and the end of the next load.
StoreIsolated ==
  \A u \in Users :
     /\ store[u].profile.kind = "json" => store[u].profile.val.username = u
     /\ StoredRecords(u) \subseteq InitialRecords(u)

\* C28: an advice request is built from the profile of the identity logged
\* in; a response put on display answers a request built for that
\* identity; and the decision of the previous identity does not stay on
\* display when another identity logs in.
AdviceFollowsIdentity ==
  [][/\ Len(pending') > Len(pending) =>
          pending'[Len(pending')].profile.username = currentUser
     /\ (lastOp'.op = "agentResolve" /\ Truthy(currentUser)) =>
          pending[lastOp'.id].profile.username = currentUser
     /\ (lastOp'.op = "login" /\ Truthy(currentUser')
           /\ ~profile.isNull /\ profile.username # currentUser') =>
          agentFeedback'.isNull]_vars

\* C29: isAgentThinking is true exactly in the states in which an advice
\* request is outstanding; the completion of one of two overlapping
\* requests leaves it true.
ThinkingIffOutstanding == isAgentThinking <=> pending # << >>

\* C30: loading is true exactly while a capture (the reading of the file and
\* the analysis request that follows it) is outstanding, so that at most one
\* is outstanding at a time; a chat request does not change the flag.
LoadingIffAnalysing ==
  crashed = "none" =>
    /\ loading <=> capture # << >>
    /\ Len(capture) <= 1

====
